---- MODULE Spec2Model ----
(***************************************************************************)
(* A model of sgf_wrapper.py: decoding of SGF properties, the look-ahead   *)
(* at the next node, replay of setup stones and moves along the main       *)
(* branch, the SgfWrapper constructor and the get_main_branch generator.   *)
(*                                                                         *)
(* Python values are tagged records, so that None, strings, lists,         *)
(* positions and raised exceptions can be compared with each other.        *)
(* The go module (Position, place_stone, deduce_groups), utils.pc and      *)
(* sgf.parse are collaborators of sgf_wrapper.py; they are modelled at     *)
(* their interface.                                                        *)
(***************************************************************************)
EXTENDS Integers, Sequences, FiniteSets, TLC

VARIABLES
    nodes,      \* the main branch of the parsed game: nodes[1] is game.root
    wrapper,    \* the SgfWrapper object: None, the object, or the raised exception
    go_N,       \* the go module's process-wide board size (go.set_board_size)
    gen,        \* gen[w]: the generator frame of walk w (get_main_branch)
    out,        \* out[w]: the records walk w has yielded so far
    call        \* the last direct call of a pure function: [fn, arg, ret]

vars == <<nodes, wrapper, go_N, gen, out, call>>

-----------------------------------------------------------------------------
(* Bounds of the model *)

\* longest main branch (number of nodes, root included)
MaxLen == 3

\* longest raw value list handed to sgf_prop
MaxVals == 2

Walks == {"w1", "w2"}

-----------------------------------------------------------------------------
(* Python values *)

None == [t |-> "None"]

Str(s) == [t |-> "str", v |-> s]

List(l) == [t |-> "list", v |-> l]

Raise(e) == [t |-> "raise", exc |-> e]

Node(i) == [t |-> "Node", i |-> i]

IsRaise(x) == x.t = "raise"

\* x or None, for a string x
OrNone(s) == IF s = "" THEN None ELSE Str(s)

\* dict.get(key, default): the raw value list as a Python list, or the default
Get(props, key, default) ==
    IF key \in DOMAIN props THEN List(props[key]) ELSE default

Num(n) == [t |-> "num", v |-> n]

\* int(x) for the values sgf_prop can return: a decimal string is decoded,
\* any other string is a ValueError, None or a list a TypeError
IntTable == ("1" :> 1) @@ ("2" :> 2) @@ ("3" :> 3)

PyInt(x) ==
    IF x.t # "str" THEN Raise("TypeError")
    ELSE IF x.v \in DOMAIN IntTable THEN Num(IntTable[x.v])
    ELSE Raise("ValueError")

\* float(x), in half points
FloatTable == ("6.5" :> 13) @@ ("0.5" :> 1)

PyFloat(x) ==
    IF x.t # "str" THEN Raise("TypeError")
    ELSE IF x.v \in DOMAIN FloatTable THEN Num(FloatTable[x.v])
    ELSE Raise("ValueError")

-----------------------------------------------------------------------------
(* utils.parse_sgf_coords and the go module *)

\* "xy" is column x, row y, with "aa" the top left point; "" is a pass
CoordTable ==
    ("aa" :> <<0, 0>>) @@ ("ab" :> <<1, 0>>) @@
    ("ba" :> <<0, 1>>) @@ ("bb" :> <<1, 1>>)

pc(s) == IF s = "" THEN None ELSE CoordTable[s]

Points(n) == {<<r, c>> : r \in 0 .. n - 1, c \in 0 .. n - 1}

Adjacent(p, q) ==
    \/ p[1] = q[1] /\ (p[2] - q[2] = 1 \/ q[2] - p[2] = 1)
    \/ p[2] = q[2] /\ (p[1] - q[1] = 1 \/ q[1] - p[1] = 1)

place_stone(board, color, c) == [board EXCEPT ![c] = color]

\* the stones connected to the stones of S through adjacent stones of the
\* same colour
RECURSIVE Flood(_, _)
Flood(board, S) ==
    LET T == S \cup {q \in DOMAIN board :
                        \E p \in S : Adjacent(p, q) /\ board[q] = board[p]}
    IN IF T = S THEN S ELSE Flood(board, T)

deduce_groups(board) ==
    {[color |-> board[p], stones |-> Flood(board, {p})] :
        p \in {q \in DOMAIN board : board[q] # 0}}

initial_state ==
    LET b == [p \in Points(go_N) |-> 0]
    IN [t |-> "Position", board |-> b, groups |-> deduce_groups(b),
        komi |-> 15, player1turn |-> TRUE]

\* Position.play_move: None for an illegal move (here: an occupied point);
\* a pass or a stone of the side to move, and the turn flag alternates
play_move(pos, c) ==
    IF c = None THEN [pos EXCEPT !.player1turn = ~@]
    ELSE IF pos.board[c] # 0 THEN None
    ELSE LET b == place_stone(pos.board, IF pos.player1turn THEN 1 ELSE -1, c)
         IN [pos EXCEPT !.board = b, !.groups = deduce_groups(b),
                        !.player1turn = ~@]

-----------------------------------------------------------------------------
(* sgf_wrapper.py *)

\* sgf_prop taking the first value of any non-empty list
sgf_prop_first(value_list) ==
    IF value_list = None THEN None
    ELSE IF Len(value_list.v) >= 1 THEN Str(value_list.v[1])
    ELSE value_list

sgf_prop(value_list) ==
    IF value_list = None THEN None
    ELSE IF Len(value_list.v) = 1 THEN Str(value_list.v[1])
    ELSE value_list

\* for s in stones: board = place_stone(board, color, pc(s))
PlaceAll(board, color, stones) ==
    LET after[k \in 0 .. Len(stones)] ==
            IF k = 0 THEN board
            ELSE place_stone(after[k - 1], color, pc(stones[k]))
    IN after[Len(stones)]

\* handle_add_stones without the short-circuit: the groups are derived from
\* the board whether or not a stone was added
handle_add_stones_always_derives(pos, node) ==
    LET props == nodes[node.i]
        black_stones_added == Get(props, "AB", List(<<>>)).v
        white_stones_added == Get(props, "AW", List(<<>>)).v
        working_board == PlaceAll(PlaceAll(pos.board, 1, black_stones_added),
                                  -1, white_stones_added)
    IN [pos EXCEPT !.board = working_board,
                   !.groups = deduce_groups(working_board)]

\* handle_add_stones replacing the board alone
handle_add_stones_keeps_groups(pos, node) ==
    LET props == nodes[node.i]
        black_stones_added == Get(props, "AB", List(<<>>)).v
        white_stones_added == Get(props, "AW", List(<<>>)).v
        working_board == PlaceAll(PlaceAll(pos.board, 1, black_stones_added),
                                  -1, white_stones_added)
    IN IF black_stones_added # <<>> \/ white_stones_added # <<>>
       THEN [pos EXCEPT !.board = working_board]
       ELSE pos

\* handle_add_stones placing the white stones in Black's colour
handle_add_stones_all_black(pos, node) ==
    LET props == nodes[node.i]
        black_stones_added == Get(props, "AB", List(<<>>)).v
        white_stones_added == Get(props, "AW", List(<<>>)).v
        working_board == PlaceAll(PlaceAll(pos.board, 1, black_stones_added),
                                  1, white_stones_added)
    IN IF black_stones_added # <<>> \/ white_stones_added # <<>>
       THEN [pos EXCEPT !.board = working_board,
                        !.groups = deduce_groups(working_board)]
       ELSE pos

handle_add_stones(pos, node) ==
    LET props == nodes[node.i]
        black_stones_added == Get(props, "AB", List(<<>>)).v
        white_stones_added == Get(props, "AW", List(<<>>)).v
        working_board == PlaceAll(PlaceAll(pos.board, 1, black_stones_added),
                                  -1, white_stones_added)
    IN IF black_stones_added # <<>> \/ white_stones_added # <<>>
       THEN [pos EXCEPT !.board = working_board,
                        !.groups = deduce_groups(working_board)]
       ELSE pos

\* node.next
NextOf(tree, node) == IF node.i < Len(tree) THEN Node(node.i + 1) ELSE None

Pair(a, b) == [t |-> "tuple", a |-> a, b |-> b]

\* get_next_move without "or None": an empty value is reported as it is
get_next_move_keep_empty(tree, node) ==
    IF NextOf(tree, node) = None THEN Pair(None, None)
    ELSE LET props == tree[NextOf(tree, node).i]
         IN IF "W" \in DOMAIN props THEN Pair(Str("W"), Str(props["W"][1]))
            ELSE IF "B" \notin DOMAIN props THEN Raise("KeyError")
            ELSE Pair(Str("B"), Str(props["B"][1]))

\* get_next_move testing for the B property first
get_next_move_B_first(tree, node) ==
    IF NextOf(tree, node) = None THEN Pair(None, None)
    ELSE LET props == tree[NextOf(tree, node).i]
         IN IF "B" \in DOMAIN props THEN Pair(Str("B"), OrNone(props["B"][1]))
            ELSE IF "W" \notin DOMAIN props THEN Raise("KeyError")
            ELSE Pair(Str("W"), OrNone(props["W"][1]))

get_next_move(tree, node) ==
    IF NextOf(tree, node) = None THEN Pair(None, None)
    ELSE LET props == tree[NextOf(tree, node).i]
         IN IF "W" \in DOMAIN props THEN Pair(Str("W"), OrNone(props["W"][1]))
            ELSE IF "B" \notin DOMAIN props THEN Raise("KeyError")
            ELSE Pair(Str("B"), OrNone(props["B"][1]))

\* the move step testing for the B property first
PlayRecorded_B_first(pos, node) ==
    LET props == nodes[node.i]
    IN IF "B" \in DOMAIN props THEN play_move(pos, pc(props["B"][1]))
       ELSE IF "W" \in DOMAIN props THEN play_move(pos, pc(props["W"][1]))
       ELSE pos

\* the move step of handle_play_stones: the W move if the node has one,
\* else the B move if it has one, else the position as it is
PlayRecorded(pos, node) ==
    LET props == nodes[node.i]
    IN IF "W" \in DOMAIN props THEN play_move(pos, pc(props["W"][1]))
       ELSE IF "B" \in DOMAIN props THEN play_move(pos, pc(props["B"][1]))
       ELSE pos

\* handle_play_stones without the elif branch that restores Black-to-move
handle_play_stones_W_only(pos, node) ==
    LET pos1 == PlayRecorded(pos, node)
        nm == get_next_move(nodes, node)
    IN IF IsRaise(nm) THEN nm
       ELSE IF nm.a = Str("W")
            THEN IF pos1 = None THEN Raise("AttributeError")
                 ELSE IF pos1.player1turn
                      THEN [pos1 EXCEPT !.player1turn = FALSE]
                      ELSE pos1
       ELSE pos1

\* handle_play_stones that hands the turn to Black when there is no next node
handle_play_stones_Black_at_end(pos, node) ==
    LET pos1 == PlayRecorded(pos, node)
        nm == get_next_move(nodes, node)
    IN IF IsRaise(nm) THEN nm
       ELSE IF nm.a = Str("W")
            THEN IF pos1 = None THEN Raise("AttributeError")
                 ELSE IF pos1.player1turn
                      THEN [pos1 EXCEPT !.player1turn = FALSE]
                      ELSE pos1
       ELSE IF nm.a = Str("B")
            THEN IF pos1 = None THEN Raise("AttributeError")
                 ELSE IF ~pos1.player1turn
                      THEN [pos1 EXCEPT !.player1turn = TRUE]
                      ELSE pos1
       ELSE IF pos1 = None THEN pos1
       ELSE [pos1 EXCEPT !.player1turn = TRUE]

\* handle_play_stones whose correction recolours the board with the flag
handle_play_stones_recolours(pos, node) ==
    LET pos1 == PlayRecorded(pos, node)
        nm == get_next_move(nodes, node)
        flipped == [p \in DOMAIN pos1.board |-> 0 - pos1.board[p]]
    IN IF IsRaise(nm) THEN nm
       ELSE IF nm.a = Str("W")
            THEN IF pos1 = None THEN Raise("AttributeError")
                 ELSE IF pos1.player1turn
                      THEN [pos1 EXCEPT !.player1turn = FALSE, !.board = flipped,
                                        !.groups = deduce_groups(flipped)]
                      ELSE pos1
       ELSE IF nm.a = Str("B")
            THEN IF pos1 = None THEN Raise("AttributeError")
                 ELSE IF ~pos1.player1turn
                      THEN [pos1 EXCEPT !.player1turn = TRUE, !.board = flipped,
                                        !.groups = deduce_groups(flipped)]
                      ELSE pos1
       ELSE pos1

handle_play_stones(pos, node) ==
    LET pos1 == PlayRecorded(pos, node)
        nm == get_next_move(nodes, node)
    IN IF IsRaise(nm) THEN nm
       ELSE IF nm.a = Str("W")
            THEN IF pos1 = None THEN Raise("AttributeError")
                 ELSE IF pos1.player1turn
                      THEN [pos1 EXCEPT !.player1turn = FALSE]
                      ELSE pos1
       ELSE IF nm.a = Str("B")
            THEN IF pos1 = None THEN Raise("AttributeError")
                 ELSE IF ~pos1.player1turn
                      THEN [pos1 EXCEPT !.player1turn = TRUE]
                      ELSE pos1
       ELSE pos1

PositionWithContext(position, next_move, result) ==
    [position |-> position, next_move |-> next_move, result |-> result]

\* is_usable that does not look at the result
is_usable_ignores_result(self) ==
    self.position # None /\ self.next_move # None

is_usable(self) ==
    self.position # None /\ self.next_move # None /\ self.result # Str("Void")

\* __init__ without the game-type assertion
SgfWrapper_init_unchecked(tree) ==
    LET props == tree[1]
        result == sgf_prop(Get(props, "RE", None))
        komi == PyFloat(sgf_prop(Get(props, "KM", None)))
        board_size == PyInt(sgf_prop(Get(props, "SZ", None)))
    IN IF IsRaise(komi) THEN komi
       ELSE IF IsRaise(board_size) THEN board_size
       ELSE [t |-> "SgfWrapper", result |-> result, komi |-> komi.v,
             board_size |-> board_size.v]

\* SgfWrapper.__init__: the object, or the exception that ends construction
SgfWrapper_init(tree) ==
    LET props == tree[1]
        gm == PyInt(sgf_prop(Get(props, "GM", List(<<"1">>))))
        result == sgf_prop(Get(props, "RE", None))
        komi == PyFloat(sgf_prop(Get(props, "KM", None)))
        board_size == PyInt(sgf_prop(Get(props, "SZ", None)))
    IN IF IsRaise(gm) THEN gm
       ELSE IF gm.v # 1 THEN Raise("AssertionError")
       ELSE IF IsRaise(komi) THEN komi
       ELSE IF IsRaise(board_size) THEN board_size
       ELSE [t |-> "SgfWrapper", result |-> result, komi |-> komi.v,
             board_size |-> board_size.v]

-----------------------------------------------------------------------------
(* The input: the main branch of a parsed game record *)

NoProps == [k \in {} |-> <<>>]

Required == ("KM" :> <<"6.5">>) @@ ("SZ" :> <<"2">>)

\* the root's own properties: game type and result left out or given, the
\* game type that of Go (1) or another (2)
RootProps ==
    { Required,
      ("GM" :> <<"1">>) @@ ("RE" :> <<"Void">>) @@ Required,
      ("GM" :> <<"2">>) @@ Required,
      ("GM" :> <<"2">>) @@ ("RE" :> <<"Void">>) @@ Required }

\* what a node can record: nothing, a move of either colour, a pass,
\* both colours at once, setup stones alone, setup stones and a move, a
\* move on a point that the node's own setup fills
NodeProps ==
    { NoProps,
      "B" :> <<"aa">>,
      "B" :> <<"ab">>,
      "W" :> <<"aa">>,
      "W" :> <<"">>,
      ("W" :> <<"ab">>) @@ ("B" :> <<"aa">>),
      "AB" :> <<"ba">>,
      ("AB" :> <<"aa">>) @@ ("AW" :> <<"bb">>) @@ ("B" :> <<"ab">>),
      ("AB" :> <<"bb">>) @@ ("B" :> <<"bb">>) }

Chains(n) == UNION {[1 .. k -> NodeProps] : k \in 1 .. n}

Trees ==
    {[i \in 1 .. Len(c) |-> IF i = 1 THEN r @@ c[1] ELSE c[i]] :
        r \in RootProps, c \in Chains(MaxLen)}

-----------------------------------------------------------------------------
(* The program *)

NoFrame == [pc |-> "none", pos |-> None, current_node |-> None, exc |-> ""]

NoCall == [fn |-> "none", arg |-> None, ret |-> None]

Init ==
    /\ nodes \in Trees
    /\ wrapper = None
    /\ go_N = 0
    /\ gen = [w \in Walks |-> NoFrame]
    /\ out = [w \in Walks |-> <<>>]
    /\ call = NoCall

\* SgfWrapper(file_contents)
Construct ==
    /\ wrapper = None
    /\ wrapper' = SgfWrapper_init(nodes)
    /\ go_N' = IF IsRaise(wrapper') THEN go_N ELSE wrapper'.board_size
    /\ UNCHANGED <<nodes, gen, out, call>>

\* sgf.get_main_branch(): a new generator, none of its body run yet
GetMainBranch(w) ==
    /\ wrapper.t = "SgfWrapper"
    /\ gen[w].pc = "none"
    /\ gen' = [gen EXCEPT ![w].pc = "created"]
    /\ UNCHANGED <<nodes, wrapper, go_N, out, call>>

\* the position kept in one place for all walks (an attribute of the wrapper)
SaveFrame_shared(g, w, frame) ==
    [v \in Walks |-> IF v = w THEN frame ELSE [g[v] EXCEPT !.pos = frame.pos]]

\* the frame of walk w is saved at the yield (or at its end)
SaveFrame(g, w, frame) == [g EXCEPT ![w] = frame]

\* the body of get_main_branch replaying the node's move before its setup
Resume_move_first(f) ==
    LET f0 == IF f.pc = "created"
              THEN [f EXCEPT !.pos = [initial_state EXCEPT !.komi = wrapper.komi],
                             !.current_node = Node(1)]
              ELSE f
    IN IF ~(f0.pos # None /\ f0.current_node # None)
       THEN [frame |-> [f0 EXCEPT !.pc = "done"], yielded |-> <<>>]
       ELSE LET pos1 == handle_play_stones(f0.pos, f0.current_node)
                pos2 == IF IsRaise(pos1) THEN pos1
                        ELSE IF pos1 = None THEN Raise("AttributeError")
                        ELSE handle_add_stones(pos1, f0.current_node)
            IN IF IsRaise(pos2)
               THEN [frame |-> [f0 EXCEPT !.pc = "raised", !.exc = pos2.exc],
                     yielded |-> <<>>]
               ELSE LET nm == get_next_move(nodes, f0.current_node)
                    IN [frame |-> [f0 EXCEPT !.pc = "suspended", !.pos = pos2,
                                      !.current_node = NextOf(nodes, f0.current_node)],
                        yielded |-> <<PositionWithContext(pos2, nm.b, wrapper.result)>>]

\* the body of get_main_branch from where frame f stands to its next
\* yield, its end or a raise: the frame it leaves and the record it yields
Resume(f) ==
    LET f0 == IF f.pc = "created"
              THEN [f EXCEPT !.pos = [initial_state EXCEPT !.komi = wrapper.komi],
                             !.current_node = Node(1)]
              ELSE f
    IN IF ~(f0.pos # None /\ f0.current_node # None)
       THEN [frame |-> [f0 EXCEPT !.pc = "done"], yielded |-> <<>>]
       ELSE LET pos1 == handle_add_stones(f0.pos, f0.current_node)
                pos2 == handle_play_stones(pos1, f0.current_node)
            IN IF IsRaise(pos2)
               THEN [frame |-> [f0 EXCEPT !.pc = "raised", !.pos = pos1,
                                          !.exc = pos2.exc],
                     yielded |-> <<>>]
               ELSE LET nm == get_next_move(nodes, f0.current_node)
                    IN [frame |-> [f0 EXCEPT !.pc = "suspended", !.pos = pos2,
                                      !.current_node = NextOf(nodes, f0.current_node)],
                        yielded |-> <<PositionWithContext(pos2, nm.b, wrapper.result)>>]

\* next(generator) on walk w
Pull(w) ==
    /\ gen[w].pc \in {"created", "suspended"}
    /\ LET r == Resume(gen[w])
       IN /\ gen' = SaveFrame(gen, w, r.frame)
          /\ out' = [out EXCEPT ![w] = @ \o r.yielded]
    /\ UNCHANGED <<nodes, wrapper, go_N, call>>

Next ==
    \/ Construct
    \/ \E w \in Walks : GetMainBranch(w)
    \/ \E w \in Walks : Pull(w)

Spec == Init /\ [][Next]_vars

-----------------------------------------------------------------------------
(* Direct calls of the module's functions, on inputs drawn from bounded sets *)

Bool(b) == [t |-> "bool", v |-> b]

RawVals == {"1", "Void", "6.5"}

ValueLists ==
    {None} \cup {List(l) : l \in UNION {[1 .. k -> RawVals] : k \in 0 .. MaxVals}}

Records ==
    {PositionWithContext(p, m, r) :
        p \in {None, initial_state},
        m \in {None, Str("aa")},
        r \in {None, Str("Void"), Str("B+R"), List(<<"B+R", "Void">>)}}

Pending == [t |-> "pending"]

\* positions on a 2 x 2 board, as a caller may hand them in: the groups those
\* of the board or left over from an older board, either side to move
EmptyBoard == [p \in Points(2) |-> 0]

FnBoards ==
    { EmptyBoard,
      place_stone(EmptyBoard, 1, pc("aa")),
      place_stone(place_stone(EmptyBoard, 1, pc("aa")), -1, pc("ba")) }

FnPositions ==
    UNION {{[t |-> "Position", board |-> b, groups |-> g, komi |-> 13,
             player1turn |-> f] : g \in {deduce_groups(b), {}}, f \in BOOLEAN} :
                b \in FnBoards}

\* what a node can hold for handle_add_stones: no setup, one colour, both
\* colours, several stones of a colour, both colours on one point
SetupProps ==
    { NoProps,
      "B" :> <<"aa">>,
      "AB" :> <<"ba">>,
      "AW" :> <<"bb">>,
      ("AB" :> <<"aa">>) @@ ("AW" :> <<"bb">>),
      ("AB" :> <<"ab", "ba">>) @@ ("AW" :> <<"bb">>),
      ("AB" :> <<"ab">>) @@ ("AW" :> <<"ba", "bb">>),
      ("AB" :> <<"bb">>) @@ ("AW" :> <<"bb">>) }

\* handle_play_stones reads a node and its next child
PlayTrees == Chains(2)

Calls ==
    {[fn |-> "sgf_prop", arg |-> vl, ret |-> Pending] : vl \in ValueLists}
    \cup {[fn |-> "is_usable", arg |-> rec, ret |-> Pending] : rec \in Records}
    \cup UNION {{[fn |-> "get_next_move", arg |-> [tree |-> tree, node |-> Node(i)],
                  ret |-> Pending] : i \in 1 .. Len(tree)} : tree \in Chains(MaxLen)}
    \cup {[fn |-> "handle_add_stones",
           arg |-> [pos |-> pos, tree |-> <<props>>, node |-> Node(1)],
           ret |-> Pending] : pos \in FnPositions, props \in SetupProps}
    \cup UNION {{[fn |-> "handle_play_stones",
                  arg |-> [pos |-> pos, tree |-> tree, node |-> Node(i)],
                  ret |-> Pending] : pos \in FnPositions, i \in 1 .. Len(tree)} :
                    tree \in PlayTrees}

\* the functions that read a node are called on a node of the tree in nodes
InitFn ==
    /\ wrapper = None
    /\ go_N = 0
    /\ gen = [w \in Walks |-> NoFrame]
    /\ out = [w \in Walks |-> <<>>]
    /\ call \in Calls
    /\ nodes = IF call.fn \in {"handle_add_stones", "handle_play_stones"}
               THEN call.arg.tree ELSE <<Required>>

CallSgfProp ==
    /\ call.fn = "sgf_prop" /\ call.ret = Pending
    /\ call' = [call EXCEPT !.ret = sgf_prop(call.arg)]
    /\ UNCHANGED <<nodes, wrapper, go_N, gen, out>>

CallIsUsable ==
    /\ call.fn = "is_usable" /\ call.ret = Pending
    /\ call' = [call EXCEPT !.ret = Bool(is_usable(call.arg))]
    /\ UNCHANGED <<nodes, wrapper, go_N, gen, out>>

CallGetNextMove ==
    /\ call.fn = "get_next_move" /\ call.ret = Pending
    /\ call' = [call EXCEPT !.ret = get_next_move(call.arg.tree, call.arg.node)]
    /\ UNCHANGED <<nodes, wrapper, go_N, gen, out>>

CallHandleAddStones ==
    /\ call.fn = "handle_add_stones" /\ call.ret = Pending
    /\ call' = [call EXCEPT !.ret = handle_add_stones(call.arg.pos, call.arg.node)]
    /\ UNCHANGED <<nodes, wrapper, go_N, gen, out>>

CallHandlePlayStones ==
    /\ call.fn = "handle_play_stones" /\ call.ret = Pending
    /\ call' = [call EXCEPT !.ret = handle_play_stones(call.arg.pos, call.arg.node)]
    /\ UNCHANGED <<nodes, wrapper, go_N, gen, out>>

NextFn ==
    \/ CallSgfProp
    \/ CallIsUsable
    \/ CallGetNextMove
    \/ CallHandleAddStones
    \/ CallHandlePlayStones

SpecFn == InitFn /\ [][NextFn]_vars

-----------------------------------------------------------------------------
(* Several wrappers in one process: while the wrapper of nodes is in use,   *)
(* other game records are loaded, each through SgfWrapper(file_contents)    *)

\* the roots of the other records: a 3 x 3 game, and one that is not Go
OtherRoots ==
    { ("KM" :> <<"6.5">>) @@ ("SZ" :> <<"3">>),
      ("GM" :> <<"2">>) @@ ("KM" :> <<"6.5">>) @@ ("SZ" :> <<"3">>) }

\* the records walked here: a Go root with the required properties, and at
\* most one node after it
SizeTrees == {[i \in 1 .. Len(c) |-> IF i = 1 THEN Required @@ c[1] ELSE c[i]] :
                c \in Chains(2)}

InitSizes ==
    /\ nodes \in SizeTrees
    /\ wrapper = None
    /\ go_N = 0
    /\ gen = [w \in Walks |-> NoFrame]
    /\ out = [w \in Walks |-> <<>>]
    /\ call = NoCall

\* SgfWrapper(other_contents): the new object is the caller's; what it
\* leaves behind here is the process-wide board size of line 88
ConstructOther ==
    /\ \E root \in OtherRoots :
          LET other == SgfWrapper_init(<<root>>)
          IN go_N' = IF IsRaise(other) THEN go_N ELSE other.board_size
    /\ UNCHANGED <<nodes, wrapper, gen, out, call>>

NextSizes ==
    \/ Construct
    \/ ConstructOther
    \/ \E w \in Walks : GetMainBranch(w)
    \/ \E w \in Walks : Pull(w)

SpecSizes == InitSizes /\ [][NextSizes]_vars

-----------------------------------------------------------------------------
(* Properties *)

HasMove(props) == "W" \in DOMAIN props \/ "B" \in DOMAIN props

\* walk w has got as far as processing node i
Reached(w, i) ==
    \/ Len(out[w]) >= i
    \/ gen[w].pc = "raised" /\ gen[w].current_node = Node(i)

\* C1: the position in the record of a node that has a next child has its
\* turn flag on the colour recorded at that child: White to move when the
\* child has a W property, Black to move when it is a B node.
C1_TurnFlagFollowsNextColour ==
    \A w \in Walks : \A i \in 1 .. Len(out[w]) :
        (i < Len(nodes) /\ out[w][i].position # None) =>
            /\ "W" \in DOMAIN nodes[i + 1] => ~out[w][i].position.player1turn
            /\ ("W" \notin DOMAIN nodes[i + 1] /\ "B" \in DOMAIN nodes[i + 1])
                    => out[w][i].position.player1turn

\* nodes recording Black, Black, White: after the second Black move it is
\* White to move, after the first it is Black again
C1_Witness ==
    \E w \in Walks :
        /\ Len(nodes) >= 3 /\ Len(out[w]) >= 2
        /\ \A i \in 1 .. 2 : "B" \in DOMAIN nodes[i] /\ "W" \notin DOMAIN nodes[i]
        /\ "W" \in DOMAIN nodes[3]
        /\ out[w][1].position.player1turn
        /\ ~out[w][2].position.player1turn

\* C2 (as claimed): a move that cannot be applied never ends the walk in a
\* fault, also at a node whose next child records a move; the walk yields
\* one record with an absent position for that node, and that record is its
\* last.
C2_IllegalMoveEndsWalkNormally ==
    \A w \in Walks :
        /\ (gen[w].pc = "raised" /\ HasMove(nodes[gen[w].current_node.i + 1]))
              => PlayRecorded(gen[w].pos, gen[w].current_node) # None
        /\ \A i \in 1 .. Len(out[w]) :
              out[w][i].position = None => i = Len(out[w])

\* the points a node fills by setup, and the point of its move
SetupPoints(props) ==
    {pc(Get(props, "AB", List(<<>>)).v[j]) : j \in 1 .. Len(Get(props, "AB", List(<<>>)).v)}
    \cup {pc(Get(props, "AW", List(<<>>)).v[j]) : j \in 1 .. Len(Get(props, "AW", List(<<>>)).v)}

MovePoints(props) ==
    LET raw == IF "W" \in DOMAIN props THEN props["W"][1]
               ELSE IF "B" \in DOMAIN props THEN props["B"][1] ELSE ""
    IN IF raw = "" THEN {} ELSE {pc(raw)}

RECURSIVE StonesAfter(_)
StonesAfter(k) ==
    IF k = 0 THEN {}
    ELSE StonesAfter(k - 1) \cup SetupPoints(nodes[k]) \cup MovePoints(nodes[k])

\* every move of the chain is on a point empty when it is played
EveryMoveLegal ==
    \A k \in 1 .. Len(nodes) :
        MovePoints(nodes[k]) \cap (StonesAfter(k - 1) \cup SetupPoints(nodes[k])) = {}

\* C3 (as claimed): on a chain whose moves are all legal the walk raises
\* nothing, has yielded one record per node visited so far, in chain order,
\* and ends after exactly as many records as the chain has nodes.
C3_OneRecordPerNode ==
    EveryMoveLegal =>
        \A w \in Walks :
            /\ gen[w].pc # "raised"
            /\ gen[w].pc = "done" => Len(out[w]) = Len(nodes)
            /\ gen[w].pc = "suspended" =>
                  Len(out[w]) = IF gen[w].current_node = None THEN Len(nodes)
                                ELSE gen[w].current_node.i - 1

\* the move value recorded at node i's next child, a pass being absent
RecordedNextMove(i) ==
    IF i >= Len(nodes) THEN None
    ELSE LET child == nodes[i + 1]
             raw == IF "W" \in DOMAIN child THEN child["W"][1] ELSE child["B"][1]
         IN IF raw = "" THEN None ELSE Str(raw)

\* C4: the i-th record carries the move value recorded at node i's next child
\* (its W value if it has one, otherwise its B value, a pass being absent),
\* and nothing when node i is the last node.
C4_NextMoveIsChildsMove ==
    \A w \in Walks : \A i \in 1 .. Len(out[w]) :
        out[w][i].next_move = RecordedNextMove(i)

\* a whole chain walked: a child with both colours, a pass, and the end
C4_Witness ==
    \E w \in Walks :
        /\ Len(nodes) = 3 /\ Len(out[w]) = 3
        /\ "W" \in DOMAIN nodes[2] /\ "B" \in DOMAIN nodes[2]
        /\ out[w][1].next_move = Str(nodes[2]["W"][1])
        /\ "W" \in DOMAIN nodes[3] /\ nodes[3]["W"] = <<"">>
        /\ out[w][2].next_move = None
        /\ out[w][3].next_move = None

\* C5 (as claimed): a walk that gets to a node whose next child records no
\* move yields a record for it, with an absent next move; nothing is raised.
C5_MovelessChildIsBlackPass ==
    \A w \in Walks : \A i \in 1 .. Len(nodes) - 1 :
        (~HasMove(nodes[i + 1]) /\ Reached(w, i)) =>
            /\ gen[w].pc # "raised"
            /\ Len(out[w]) >= i
            /\ out[w][i].next_move = None

\* C6: a root whose GM property is not 1 never gets a wrapper, so no walk
\* over it is ever started and no record is produced.
C6_BadGameTypeFailsConstruction ==
    Get(nodes[1], "GM", List(<<"1">>)) # List(<<"1">>) =>
        /\ wrapper.t # "SgfWrapper"
        /\ \A w \in Walks : gen[w] = NoFrame /\ out[w] = <<>>

\* construction of a record with GM 2 has failed on the assertion
C6_Witness ==
    /\ Get(nodes[1], "GM", None) = List(<<"2">>)
    /\ wrapper = Raise("AssertionError")

\* C7: is_usable is true exactly when the position is present, the next move
\* is present and the result is not "Void"; an absent result counts as usable.
C7_UsableIffAllPresentAndNotVoid ==
    (call.fn = "is_usable" /\ call.ret # Pending) =>
        /\ call.ret \in {Bool(TRUE), Bool(FALSE)}
        /\ call.arg.position = None => call.ret = Bool(FALSE)
        /\ call.arg.next_move = None => call.ret = Bool(FALSE)
        /\ call.arg.result = Str("Void") => call.ret = Bool(FALSE)
        /\ (call.arg.position # None /\ call.arg.next_move # None
                /\ call.arg.result # Str("Void")) => call.ret = Bool(TRUE)

\* a record with position and next move and no result at all is usable
C7_Witness ==
    /\ call.fn = "is_usable" /\ call.ret = Bool(TRUE)
    /\ call.arg.result = None

\* the walk run alone from its start to its end: one pull per node, and
\* one more to end it; a pull of a walk that has ended changes nothing
SoloPull(prev) ==
    IF prev.frame.pc \in {"done", "raised"} THEN prev
    ELSE LET r == Resume(prev.frame)
         IN [frame |-> r.frame, out |-> prev.out \o r.yielded]

SoloWalk ==
    LET run[k \in 0 .. Len(nodes) + 1] ==
            IF k = 0 THEN [frame |-> [NoFrame EXCEPT !.pc = "created"], out |-> <<>>]
            ELSE SoloPull(run[k - 1])
    IN run[Len(nodes) + 1]

\* C8: whatever the interleaving of the pulls of the two walks, each walk has
\* yielded a prefix of the records it yields when run alone, holds the
\* position of its last record, and ends as it ends alone.
C8_InterleavedWalksAreSolo ==
    (\E w \in Walks : gen[w].pc # "none") =>
        LET solo == SoloWalk
        IN \A w \in Walks :
              gen[w].pc # "none" =>
                 /\ solo.frame.pc \in {"done", "raised"}
                 /\ Len(out[w]) <= Len(solo.out)
                 /\ out[w] = SubSeq(solo.out, 1, Len(out[w]))
                 /\ gen[w].pc = "suspended" =>
                       gen[w].pos = out[w][Len(out[w])].position
                 /\ gen[w].pc \in {"done", "raised"} =>
                       /\ out[w] = solo.out
                       /\ gen[w].pc = solo.frame.pc
                       /\ gen[w].exc = solo.frame.exc

\* both walks suspended at different nodes, each with stones on its board
C8_Witness ==
    /\ gen["w1"].pc = "suspended" /\ gen["w2"].pc = "suspended"
    /\ Len(out["w1"]) = 1 /\ Len(out["w2"]) = 2
    /\ gen["w1"].pos # None /\ gen["w2"].pos # None
    /\ gen["w1"].pos # gen["w2"].pos
    /\ \E p \in DOMAIN gen["w1"].pos.board : gen["w1"].pos.board[p] # 0

\* C9: get_next_move returns (absent, absent) on a node with no next child,
\* and (White, first W value or absent for an empty value) when the next
\* child has a W property, whether or not it has a B property too.
C9_LookaheadOfLastAndWhite ==
    (call.fn = "get_next_move" /\ call.ret # Pending) =>
        LET tree == call.arg.tree
            i == call.arg.node.i
        IN /\ i = Len(tree) => call.ret = Pair(None, None)
           /\ (i < Len(tree) /\ "W" \in DOMAIN tree[i + 1]) =>
                 call.ret = Pair(Str("W"), IF tree[i + 1]["W"][1] = "" THEN None
                                            ELSE Str(tree[i + 1]["W"][1]))

\* the next child has both a W and a B property and White is reported
C9_Witness ==
    /\ call.fn = "get_next_move" /\ call.ret # Pending
    /\ call.arg.node.i < Len(call.arg.tree)
    /\ {"W", "B"} \subseteq DOMAIN call.arg.tree[call.arg.node.i + 1]
    /\ call.ret = Pair(Str("W"), Str("ab"))

\* C10 (as claimed): sgf_prop returns absent for a missing or an empty list,
\* the element of a one-element list and the whole list otherwise.
C10_EmptyListIsAbsent ==
    (call.fn = "sgf_prop" /\ call.ret # Pending) =>
        IF call.arg = None \/ call.arg = List(<<>>) THEN call.ret = None
        ELSE IF Len(call.arg.v) = 1 THEN call.ret = Str(call.arg.v[1])
        ELSE call.ret = call.arg

\* C10 (amended): sgf_prop returns absent for a missing list only, the
\* element of a one-element list, and the list itself otherwise, the empty
\* list included.
C10_SgfPropDecodes ==
    (call.fn = "sgf_prop" /\ call.ret # Pending) =>
        IF call.arg = None THEN call.ret = None
        ELSE IF Len(call.arg.v) = 1 THEN call.ret = Str(call.arg.v[1])
        ELSE call.ret = call.arg

\* the empty list has been decoded, to itself
C10_Witness ==
    /\ call.fn = "sgf_prop"
    /\ call.arg = List(<<>>)
    /\ call.ret = List(<<>>)

\* the setup lists of the node a direct call works on
CallAB == Get(nodes[call.arg.node.i], "AB", List(<<>>)).v

CallAW == Get(nodes[call.arg.node.i], "AW", List(<<>>)).v

AddStonesReturned == call.fn = "handle_add_stones" /\ call.ret # Pending

\* C11: on a node with no AB and no AW values handle_add_stones returns the
\* position it was given: board, groups, turn flag and komi as they were, the
\* groups not derived again from the board.
C11_NoSetupReturnsInput ==
    (AddStonesReturned /\ CallAB = <<>> /\ CallAW = <<>>) =>
        call.ret = call.arg.pos

\* a position whose groups are not those of its board has come back as it
\* was, from a node with a move and no setup
C11_Witness ==
    /\ AddStonesReturned
    /\ "B" \in DOMAIN nodes[1] /\ CallAB = <<>> /\ CallAW = <<>>
    /\ call.arg.pos.groups # deduce_groups(call.arg.pos.board)
    /\ call.ret.groups = call.arg.pos.groups
    /\ call.ret = call.arg.pos

FramePos(f) ==
    IF f.pc = "created" THEN [initial_state EXCEPT !.komi = wrapper.komi]
    ELSE f.pos

\* the frame is about to process a node
AtNode(f) ==
    \/ f.pc = "created"
    \/ f.pc = "suspended" /\ f.pos # None /\ f.current_node # None

FrameNode(f) == IF f.pc = "created" THEN Node(1) ELSE f.current_node

\* every stone is in exactly one group, and a group has one colour
GroupsConsistent(board, groups) ==
    /\ \A p \in DOMAIN board :
          board[p] # 0 => Cardinality({g \in groups : p \in g.stones}) = 1
    /\ \A g \in groups : \A p \in g.stones : board[p] = g.color

\* in a walk, the position that goes from handle_add_stones to play_move
\* has the groups of its own board
WalkHandsFreshGroups ==
    \A w \in Walks :
        AtNode(gen[w]) =>
            LET pos1 == handle_add_stones(FramePos(gen[w]), FrameNode(gen[w]))
            IN pos1.groups = deduce_groups(pos1.board)

\* C13: when handle_add_stones adds a stone, the groups of the position it
\* returns are deduce_groups of the board it returns, whatever groups the
\* input position had, and they are consistent with that board; so in a walk
\* play_move never gets groups of a board older than the position's own.
C13_SetupDerivesGroups ==
    /\ (AddStonesReturned /\ (CallAB # <<>> \/ CallAW # <<>>)) =>
          /\ call.ret.groups = deduce_groups(call.ret.board)
          /\ GroupsConsistent(call.ret.board, call.ret.groups)
    /\ WalkHandsFreshGroups

\* stones were added to a position that came with no groups for the stones
\* on its board, and the groups returned are new
C13_Witness ==
    /\ AddStonesReturned
    /\ CallAB # <<>> /\ CallAW # <<>>
    /\ call.arg.pos.groups # deduce_groups(call.arg.pos.board)
    /\ call.ret.groups # call.arg.pos.groups
    /\ call.ret.groups = deduce_groups(call.ret.board)

PlayStonesReturned == call.fn = "handle_play_stones" /\ call.ret # Pending

\* the points where two boards differ
Changed(b1, b2) == {p \in DOMAIN b1 : b1[p] # b2[p]}

\* C14: handle_play_stones replays at most one move of the node: the first
\* W value when the node has a W property, with or without a B property,
\* otherwise the first B value, and none when it has neither; the property
\* it takes is the one get_next_move reports for this node from its parent.
C14_OneMoveWhiteFirst ==
    PlayStonesReturned =>
        LET i == call.arg.node.i
            props == nodes[i]
            before == call.arg.pos.board
        IN /\ call.ret.t = "Position" =>
                 /\ Changed(call.ret.board, before) = MovePoints(props)
                 /\ \A p \in MovePoints(props) : before[p] = 0
           /\ call.ret = None =>
                 \E p \in MovePoints(props) : before[p] # 0
           /\ (i > 1 /\ HasMove(props)) =>
                 get_next_move(nodes, Node(i - 1)) =
                    IF "W" \in DOMAIN props
                    THEN Pair(Str("W"), OrNone(props["W"][1]))
                    ELSE Pair(Str("B"), OrNone(props["B"][1]))

\* a node with both a W and a B property, reached from its parent: the stone
\* is on the W point, the B point is still empty
C14_Witness ==
    /\ PlayStonesReturned
    /\ call.arg.node.i = 2
    /\ {"W", "B"} \subseteq DOMAIN nodes[2]
    /\ call.ret.t = "Position"
    /\ call.ret.board[pc(nodes[2]["W"][1])] # 0
    /\ call.ret.board[pc(nodes[2]["B"][1])] = 0
    /\ get_next_move(nodes, Node(1)).a = Str("W")

\* what the move step of the call leaves: play_move's output for the move
\* the node records, the input position when it records none
AfterMoveStep ==
    LET props == nodes[call.arg.node.i]
    IN IF "W" \in DOMAIN props THEN play_move(call.arg.pos, pc(props["W"][1]))
       ELSE IF "B" \in DOMAIN props THEN play_move(call.arg.pos, pc(props["B"][1]))
       ELSE call.arg.pos

\* the node of the call has a next child that records a move
CallHasNextMove ==
    /\ call.arg.node.i < Len(nodes)
    /\ HasMove(nodes[call.arg.node.i + 1])

\* the colour recorded at the next child is Black
CallNextIsBlack == "W" \notin DOMAIN nodes[call.arg.node.i + 1]

\* C15: when the node has no next child, or the turn flag after the move
\* step is already on the colour the next child records, handle_play_stones
\* returns exactly what the move step left: play_move's output, or the
\* input position when the node records no move.
C15_NoCorrectionLeavesPosition ==
    ( /\ PlayStonesReturned
      /\ \/ call.arg.node.i = Len(nodes)
         \/ /\ CallHasNextMove
            /\ AfterMoveStep # None
            /\ AfterMoveStep.player1turn = CallNextIsBlack )
    => call.ret = AfterMoveStep

\* a Black move replayed on a node whose next child records White: the flag
\* play_move leaves is White's, and the position comes back as play_move
\* left it
C15_Witness ==
    /\ PlayStonesReturned
    /\ CallHasNextMove /\ ~CallNextIsBlack
    /\ "B" \in DOMAIN nodes[call.arg.node.i]
    /\ "W" \notin DOMAIN nodes[call.arg.node.i]
    /\ call.arg.pos.player1turn
    /\ AfterMoveStep # None
    /\ call.ret = AfterMoveStep
    /\ call.ret # call.arg.pos

\* the same at a node with no next child
C15_WitnessLastNode ==
    /\ PlayStonesReturned
    /\ call.arg.node.i = Len(nodes)
    /\ HasMove(nodes[call.arg.node.i])
    /\ AfterMoveStep # None
    /\ call.ret = AfterMoveStep
    /\ ~call.ret.player1turn

\* the points of a setup list
ListPoints(l) == {pc(l[j]) : j \in 1 .. Len(l)}

\* no point twice in the AB and AW lists of the call's node
SetupPointsDistinct ==
    /\ ListPoints(CallAB) \cap ListPoints(CallAW) = {}
    /\ Cardinality(ListPoints(CallAB)) = Len(CallAB)
    /\ Cardinality(ListPoints(CallAW)) = Len(CallAW)

\* the board with the white stones placed first and the black ones after
WhiteFirstBoard == PlaceAll(PlaceAll(call.arg.pos.board, -1, CallAW), 1, CallAB)

\* C16: for AB and AW lists with no point in common and none repeated, the
\* board handle_add_stones returns (black stones first, then white) is the
\* board with the white stones placed first and then the black ones.
C16_SetupOrderCommutes ==
    (AddStonesReturned /\ SetupPointsDistinct) =>
        call.ret.board = WhiteFirstBoard

\* several stones of a colour and stones of both colours, on distinct points
C16_Witness ==
    /\ AddStonesReturned /\ SetupPointsDistinct
    /\ Len(CallAB) + Len(CallAW) >= 3
    /\ CallAB # <<>> /\ CallAW # <<>>
    /\ call.ret.board = WhiteFirstBoard
    /\ call.ret.board # call.arg.pos.board

\* with a point in both lists the order shows: white is on it, where black
\* would be had the white stones gone first
C16_OverlapShowsOrder ==
    /\ AddStonesReturned /\ ~SetupPointsDistinct
    /\ call.ret.board # WhiteFirstBoard

\* the position walk w had when it came to node i
PosBefore(w, i) ==
    IF i = 1 THEN [initial_state EXCEPT !.komi = wrapper.komi]
    ELSE out[w][i - 1].position

\* the position the move of node i is applied to in walk w
MoveAppliedTo(w, i) == handle_add_stones(PosBefore(w, i), Node(i))

\* C17 (as claimed): at every node of the main branch where a move is
\* applied, the root included, the position the move is applied to has its
\* turn flag on the colour the node records: Black to move for a B move,
\* White to move for a W move.
C17_MovePlayedByRecordedColour ==
    \A w \in Walks : \A i \in 1 .. Len(nodes) :
        (Reached(w, i) /\ HasMove(nodes[i])) =>
            MoveAppliedTo(w, i).player1turn = ("W" \notin DOMAIN nodes[i])

\* the same at the nodes after the root
MovePlayedByRecordedColourAfterRoot ==
    \A w \in Walks : \A i \in 2 .. Len(nodes) :
        (Reached(w, i) /\ HasMove(nodes[i])) =>
            MoveAppliedTo(w, i).player1turn = ("W" \notin DOMAIN nodes[i])

\* a White move recorded in the root is on the board as a black stone
RootWhiteMovePlayedAsBlack ==
    \E w \in Walks :
        /\ Len(out[w]) >= 1
        /\ "W" \in DOMAIN nodes[1] /\ nodes[1]["W"][1] # ""
        /\ out[w][1].position # None
        /\ out[w][1].position.board[pc(nodes[1]["W"][1])] = 1

\* C18 (as claimed): every position a walk yields is on a board of the size
\* decoded from the SZ property of the walk's own wrapper, whatever other
\* wrappers were constructed after it, before or during the walk.
C18_WalkUsesOwnBoardSize ==
    \A w \in Walks : \A i \in 1 .. Len(out[w]) :
        out[w][i].position # None =>
            DOMAIN out[w][i].position.board = Points(wrapper.board_size)

\* a walk that has made its first step keeps the board it started with:
\* wrappers constructed later do not resize it
StartedWalkKeepsBoard ==
    \A w \in Walks : \A i \in 2 .. Len(out[w]) :
        out[w][i].position # None =>
            DOMAIN out[w][i].position.board = DOMAIN out[w][1].position.board

\* two walks of one wrapper on boards of different sizes
WalksOfOneWrapperDifferInSize ==
    /\ Len(out["w1"]) >= 1 /\ Len(out["w2"]) >= 1
    /\ out["w1"][1].position # None /\ out["w2"][1].position # None
    /\ DOMAIN out["w1"][1].position.board = Points(wrapper.board_size)
    /\ DOMAIN out["w2"][1].position.board # Points(wrapper.board_size)

\* the correction of the call fires: the next child records a colour and the
\* flag the move step left is on the other one
CorrectionFires ==
    /\ PlayStonesReturned
    /\ CallHasNextMove
    /\ AfterMoveStep # None
    /\ AfterMoveStep.player1turn # CallNextIsBlack

\* C19: when the correction of the turn flag fires, the position returned is
\* the one the move step left with its turn flag inverted and nothing else
\* changed: same board, same groups, same komi.
C19_CorrectionChangesFlagOnly ==
    CorrectionFires =>
        /\ call.ret = [AfterMoveStep EXCEPT !.player1turn = ~@]
        /\ call.ret.board = AfterMoveStep.board
        /\ call.ret.groups = AfterMoveStep.groups
        /\ call.ret.komi = AfterMoveStep.komi
        /\ DOMAIN call.ret = DOMAIN AfterMoveStep

\* a Black move followed by another Black move: the flag is put back on
\* Black, on a board that holds the stone just played
C19_Witness ==
    /\ CorrectionFires
    /\ CallNextIsBlack
    /\ "B" \in DOMAIN nodes[call.arg.node.i]
    /\ call.arg.pos.player1turn
    /\ call.ret.player1turn
    /\ call.ret.board # call.arg.pos.board
    /\ call.ret.board = AfterMoveStep.board

====
